---------------------------- MODULE Spec2Model ----------------------------
(***************************************************************************)
(* Model of src/src/components/FooterPhysics.tsx: a React component that   *)
(* runs a matter-js simulation inside a host <div> while the div is in     *)
(* view.  The component has two pieces of React state (inView, isMobile),  *)
(* one prop (boardTextureURLs) and four effects:                           *)
(*   E1  lines 46-60    window resize listener "handleResize"  (deps [])   *)
(*   E2  lines 68-84    IntersectionObserver                    (deps [])  *)
(*   E3  lines 87-203   the simulation                     (deps [inView]) *)
(*   E4  lines 207-251  the boards   (deps [limitedBoardTextures, inView]) *)
(* JavaScript runs every handler to completion, so one action models one   *)
(* handler invocation: an event dispatch, a timer tick, or a React render  *)
(* together with the effect cleanups and effects that it commits.          *)
(***************************************************************************)
EXTENDS Integers, Sequences, FiniteSets, TLC

VARIABLES
    mounted,        \* the component is mounted (scene.current is the div)
    crashed,        \* an effect threw; React is about to unmount the tree
    winWidth,       \* window.innerWidth, what matchMedia("(max-width: 768px)") reads
    dims,           \* <<scene.current.clientWidth, scene.current.clientHeight>>
    ratio,          \* percentage of the host div's area inside the viewport
    reducedMotion,  \* matchMedia("(prefers-reduced-motion: reduce)").matches
    host,           \* the browser: [observer, rule], see HostRules
    textures,       \* the boardTextureURLs prop of the last render
    inView,         \* React state inView (value of the last setInView)
    isMobile,       \* React state isMobile (value of the last setIsMobile)
    rendered,       \* [inView, isMobile] as seen by the last committed render
    handleResizeOn, \* E1's listener is registered on window
    observed,       \* E2's observer observes the div
    ioPrev,         \* {what the observer last reported}, {} before its first callback
    simCleanup,     \* E3's registered cleanup: {the activation it belongs to}, or {}
    boardsCleanup,  \* E4's registered cleanup: [on, boards], the boards it closed over
    engineRef,      \* engine.current
    m,              \* the engine's world, the DOM and the browser's timers and listeners
    hist,           \* history of the run, read by the properties only
    parallax,       \* a ParallaxImage component: its refs, listener and frame requests
    page            \* the homepage route: the slices fetched and the slices rendered

\* the state of FooterPhysics
footer == << mounted, crashed, winWidth, dims, ratio, reducedMotion, host, textures,
             inView, isMobile, rendered, handleResizeOn, observed, ioPrev,
             simCleanup, boardsCleanup, engineRef, m, hist >>

\* the state of the other components: FooterPhysics neither reads nor writes it
rest == << parallax, page >>

vars == << footer, rest >>

env == << winWidth, dims, ratio, reducedMotion, host >>


(***************************************************************************)
(* Bounds of the model and constants of the program.                       *)
(***************************************************************************)
MaxTextures == 5        \* texture lists have 0..MaxTextures entries
TrackedTeardowns == 2   \* hist.teardowns counts up to this and then stays

MobileBreakpoint == 768
MobileCap == 3
BoundaryThickness == 20
ThresholdPercent == 50

Widths == {600, MobileBreakpoint, 1024}
ContainerDims == {<<800, 600>>, <<1000, 400>>}
Ratios == {0, 30, ThresholdPercent, 100}
TextureLists == {[i \in 1..n |-> i] : n \in 0..MaxTextures}
                  \cup {[i \in 1..n |-> n + 1 - i] : n \in 0..MaxTextures}

InitialEngine == 0

(***************************************************************************)
(* Helpers.                                                                *)
(***************************************************************************)
\* the least natural number not in used: the identity of a new object
Fresh(used) == CHOOSE n \in 0..Cardinality(used) :
                   n \notin used /\ \A k \in 0..(n - 1) : k \in used

Boundaries(bodies) == {b \in bodies : b.kind = "boundary"}
Boards(bodies) == {b \in bodies : b.kind = "board"}


(***************************************************************************)
(* Pure parts of the render function.                                      *)
(***************************************************************************)
\* a bug: the breakpoint itself counts as desktop
MatchesMobileStrict(w) == w < MobileBreakpoint

\* lines 48-51: window.matchMedia("(max-width: 768px)").matches
MatchesMobile(w) == w <= MobileBreakpoint

\* a bug: the mobile cap is not applied
limitedBoardTexturesNoCap(mobile, urls) == urls

\* a bug: on mobile the last 3 entries are kept (slice(-3))
limitedBoardTexturesLast(mobile, urls) ==
    IF mobile /\ Len(urls) > MobileCap
    THEN SubSeq(urls, Len(urls) - MobileCap + 1, Len(urls))
    ELSE urls

\* lines 63-65: isMobile ? boardTextureURLs.slice(0, 3) : boardTextureURLs
limitedBoardTextures(mobile, urls) ==
    IF mobile
    THEN SubSeq(urls, 1, IF Len(urls) < MobileCap THEN Len(urls) ELSE MobileCap)
    ELSE urls

\* lines 72-77: the observer has the single threshold 0.5.  ThresholdIndex
\* is the number of thresholds that the visible fraction has reached.  What
\* entry.isIntersecting is depends on the browser: by the W3C algorithm
\* ("spec") it is true as soon as any part of the target is inside the root,
\* and the browser calls back when the threshold index or isIntersecting
\* changes; Blink ("blink") reports isIntersecting = (threshold index > 0).
HostRules == {"spec", "blink"}
ThresholdIndex(r) == IF r >= ThresholdPercent THEN 1 ELSE 0
IsIntersecting(rule, r) ==
    IF rule = "blink" THEN ThresholdIndex(r) > 0 ELSE r > 0
Observation(rule, r) == << ThresholdIndex(r), IsIntersecting(rule, r) >>

\* lines 164-177: createBoundaries(width, height); id tells the four bodies of
\* one call from those of another call with the same arguments
Rectangle(x, y, w, h, id) ==
    [kind |-> "boundary", x |-> x, y |-> y, w |-> w, h |-> h,
     isStatic |-> TRUE, id |-> id]

\* a bug: the top wall lies inside the container (y = +10 instead of -10)
createBoundariesInside(width, height, id) ==
    { Rectangle(width \div 2, BoundaryThickness \div 2, width, BoundaryThickness, id),
      Rectangle(0 - (BoundaryThickness \div 2), height \div 2, BoundaryThickness, height, id),
      Rectangle(width \div 2, height + (BoundaryThickness \div 2), width, BoundaryThickness, id),
      Rectangle(width + (BoundaryThickness \div 2), height \div 2, BoundaryThickness, height, id) }

createBoundaries(width, height, id) ==
    { Rectangle(width \div 2, 0 - (BoundaryThickness \div 2), width, BoundaryThickness, id),
      Rectangle(0 - (BoundaryThickness \div 2), height \div 2, BoundaryThickness, height, id),
      Rectangle(width \div 2, height + (BoundaryThickness \div 2), width, BoundaryThickness, id),
      Rectangle(width + (BoundaryThickness \div 2), height \div 2, BoundaryThickness, height, id) }

\* lines 217-240: one board per entry of the list; position and rotation are
\* random and are not modelled, the identity of the body is <<id, idx>>
MakeBoards(limited, id) ==
    { [kind |-> "board", texture |-> limited[i], idx |-> i, id |-> id] :
        i \in 1..Len(limited) }

(***************************************************************************)
(* The machine m: the engine's world, the canvases in the host div, the    *)
(* onResize listeners on window, the running step and render loops, and    *)
(* for every registered onResize its closure variable "boundaries".        *)
(* Activations are told apart by an identity a.                            *)
(***************************************************************************)
EmptyWorld == [bodies |-> {}, constraints |-> {}]

EmptyMachine == [world |-> EmptyWorld, canvases |-> {}, listeners |-> {},
                 runners |-> {}, renders |-> {}, bnd |-> {}]

ActivationsOf(mm) == mm.canvases \cup mm.listeners \cup mm.runners
                        \cup mm.renders \cup mm.world.constraints

BodyIds(mm) == {b.id : b \in mm.world.bodies}
                 \cup UNION {{b.id : b \in c[2]} : c \in mm.bnd}

ClosureBoundaries(mm, a) ==
    IF \E c \in mm.bnd : c[1] = a
    THEN (CHOOSE c \in mm.bnd : c[1] = a)[2]
    ELSE {}

\* World.add(world, bodies) / World.remove(world, bodies)
WorldAdd(mm, bodies) ==
    [mm EXCEPT !.world.bodies = @ \cup bodies]
WorldRemove(mm, bodies) ==
    [mm EXCEPT !.world.bodies = @ \ bodies]

\* lines 108-118: Render.create appends a canvas to the host div
CreateRender(mm, a) == [mm EXCEPT !.canvases = @ \cup {a}]

\* lines 121-122
AddBoundaries(mm, a, d) ==
    LET bs == createBoundaries(d[1], d[2], Fresh(BodyIds(mm)))
    IN  [WorldAdd(mm, bs) EXCEPT !.bnd = {c \in @ : c[1] # a} \cup {<<a, bs>>}]

\* lines 125-138
AddMouseConstraint(mm, a) == [mm EXCEPT !.world.constraints = @ \cup {a}]

\* line 141
AddResizeListener(mm, a) == [mm EXCEPT !.listeners = @ \cup {a}]

\* lines 180-182
StartLoops(mm, a) == [mm EXCEPT !.runners = @ \cup {a}, !.renders = @ \cup {a}]

\* lines 97-182: the body of E3 after its early returns
SimSetup(mm, a, d) ==
    StartLoops(AddResizeListener(AddMouseConstraint(
        AddBoundaries(CreateRender(mm, a), a, d), a), a), a)

\* a bug: onResize resizes the canvas and leaves the boundaries as they are
OnResizeKeepsSize(mm, a, d) == mm

\* a bug: onResize adds the new boundaries without removing the old ones
OnResizeNoRemove(mm, a, d) ==
    LET bs == createBoundaries(d[1], d[2], Fresh(BodyIds(mm)))
    IN  [WorldAdd(mm, bs) EXCEPT !.bnd = {c \in @ : c[1] # a} \cup {<<a, bs>>}]

\* a bug: onResize empties the world before it adds the new boundaries
OnResizeClearsWorld(mm, a, d) ==
    LET cleared == [mm EXCEPT !.world.bodies = {}, !.bnd = {c \in @ : c[1] # a}]
        bs == createBoundaries(d[1], d[2], Fresh(BodyIds(cleared)))
    IN  [WorldAdd(cleared, bs) EXCEPT !.bnd = @ \cup {<<a, bs>>}]

\* lines 144-161: onResize of activation a (after its early return)
OnResize(mm, a, d) ==
    LET removed == WorldRemove(mm, ClosureBoundaries(mm, a))
        others == [removed EXCEPT !.bnd = {c \in @ : c[1] # a}]
        bs == createBoundaries(d[1], d[2], Fresh(BodyIds(others)))
    IN  [WorldAdd(removed, bs) EXCEPT !.bnd = {c \in @ : c[1] # a} \cup {<<a, bs>>}]

\* bugs of the cleanup: the listener stays registered; only the render loop
\* is stopped; World.clear keeps the static bodies; the canvas stays
KeepResizeListener(mm, a) == mm
StopLoopsRenderOnly(mm, a) == [mm EXCEPT !.renders = @ \ {a}]
ClearWorldKeepStatic(mm) ==
    [mm EXCEPT !.world = [bodies |-> Boundaries(@.bodies), constraints |-> {}]]
KeepCanvas(mm, a) == mm

\* a bug: World.clear empties the bodies and keeps the constraints
ClearWorldKeepConstraints(mm) == [mm EXCEPT !.world.bodies = {}]

\* lines 188-202: the cleanup E3 returned for activation a.  A closure that
\* no registered listener holds any more is garbage and is dropped.
RemoveResizeListener(mm, a) ==
    [mm EXCEPT !.listeners = @ \ {a}, !.bnd = {c \in @ : c[1] \in mm.listeners \ {a}}]
StopLoops(mm, a) == [mm EXCEPT !.renders = @ \ {a}, !.runners = @ \ {a}]
ClearWorld(mm) == [mm EXCEPT !.world = EmptyWorld]
RemoveCanvas(mm, a) == [mm EXCEPT !.canvases = @ \ {a}]

\* a bug: the cleanup runs backwards, the canvas goes first and the resize
\* listener last
TeardownTraceCanvasFirst(mm, a) ==
    LET s1 == RemoveCanvas(mm, a)
        s2 == ClearWorld(s1)
        s3 == StopLoops(s2, a)
        s4 == RemoveResizeListener(s3, a)
    IN  << mm, s1, s2, s3, s4 >>

\* the machine before the cleanup and after each of its steps: line 189,
\* lines 192-193, lines 194-198, lines 200-201
TeardownTrace(mm, a) ==
    LET s1 == RemoveResizeListener(mm, a)
        s2 == StopLoops(s1, a)
        s3 == ClearWorld(s2)
        s4 == RemoveCanvas(s3, a)
    IN  << mm, s1, s2, s3, s4 >>

SimCleanup(mm, a) ==
    LET steps == TeardownTrace(mm, a) IN steps[Len(steps)]

\* a bug: E4 returns no cleanup
BoardsCleanupMissing(mm, boards) == mm

\* a bug: the cleanup of E4 leaves the first board in the world
BoardsCleanupKeepsFirst(mm, boards) ==
    WorldRemove(mm, {b \in boards : b.idx > 1})

\* lines 242-245 and 248-250: the body and the cleanup of E4
BoardsSetup(mm, boards) == IF boards # {} THEN WorldAdd(mm, boards) ELSE mm
BoardsCleanup(mm, boards) == WorldRemove(mm, boards)


(***************************************************************************)
(* ParallaxImage (src/slices/TextAndImage/ParallaxImage.tsx).  Positions   *)
(* are fixed-point numbers: current is kept in units of 1/PosScale px, so  *)
(* that the interpolation by 0.1 is exact for MaxFrames frames.            *)
(***************************************************************************)
MaxFrames == 3          \* animationFrame runs at most MaxFrames times

ParallaxShift == 20
PosScale == 10 ^ MaxFrames

\* lines 38 and 41: (clientX / innerWidth - 0.5) * 2 for a pointer at the
\* left edge, the middle and the right edge of the viewport
MousePercents == {-1, 0, 1}

\* lines 45-48: the target position for the pointer at (xPercent, yPercent)
TargetFor(xPercent, yPercent) ==
    << xPercent * (0 - ParallaxShift), yPercent * (0 - ParallaxShift) >>

\* lines 61-62: current + (target - current) * 0.1
Interpolate(current, target) == current + ((target * PosScale - current) \div 10)

\* window.requestAnimationFrame / cancelAnimationFrame: handles count up;
\* cancelling a handle that is not pending does nothing
RequestAnimationFrame(p) ==
    [p EXCEPT !.handles = @ + 1, !.requests = @ \cup {p.handles + 1}]
CancelAnimationFrame(p, handle) == [p EXCEPT !.requests = @ \ {handle}]

\* lines 54-81: animationFrame, called by the browser for the request handle
animationFrame(p, handle) ==
    LET newX == Interpolate(p.current[1], p.target[1])
        newY == Interpolate(p.current[2], p.target[2])
        taken == [p EXCEPT !.requests = @ \ {handle}]
        moved == [taken EXCEPT
                     !.current = << newX, newY >>,
                     !.background = IF p.mounted THEN << newX, newY >> ELSE @,
                     \* translate(newX * 2.5, newY * 2.5), in halves of a unit
                     !.foreground = IF p.mounted THEN << 5 * newX, 5 * newY >> ELSE @,
                     !.frames = @ + 1]
    IN  RequestAnimationFrame(moved)

\* lines 85-90: the cleanup of the effect; frameId is the handle that line 26
\* stored
ParallaxCleanup(p) ==
    CancelAnimationFrame([p EXCEPT !.listening = FALSE], p.frameId)

\* no ParallaxImage is on the page
NoParallax ==
    [mounted |-> FALSE, listening |-> FALSE, frameId |-> 0, handles |-> 0,
     requests |-> {}, frames |-> 0, target |-> << 0, 0 >>, current |-> << 0, 0 >>,
     background |-> << 0, 0 >>, foreground |-> << 0, 0 >>, ran |-> "none"]

\* lines 19-27: the component after its first render and its mount effect
ParallaxMounted ==
    LET first == RequestAnimationFrame([NoParallax EXCEPT !.mounted = TRUE])
    IN  [first EXCEPT !.frameId = first.handles, !.listening = TRUE, !.ran = "mount"]

(***************************************************************************)
(* The homepage route (src/unnamed/part_002).                              *)
(***************************************************************************)
MaxSlices == 4          \* the homepage document has 0..MaxSlices slices

\* slice types of the homepage document (src/slices/index.ts)
SliceTypes == {"text_and_image", "hero", "video_block"}

\* the slice at position i of the document; ids are unique in a document
Slice(type, i) == [id |-> type \o "$" \o ToString(i), slice_type |-> type]

SliceLists ==
    UNION { { [i \in 1..n |-> Slice(types[i], i)] : types \in [1..n -> SliceTypes] } :
              n \in 0..MaxSlices }

\* a bug: every text_and_image slice gets a bundle of its own
BundleStepNoMerge(res, slice) ==
    IF slice.slice_type # "text_and_image" THEN Append(res, slice)
    ELSE Append(res, [id |-> slice.id \o "-bundle",
                      slice_type |-> "text_and_image_bundle",
                      slices |-> << slice >>])

\* lines 146-165: the body of the loop for one slice
BundleStep(res, slice) ==
    IF slice.slice_type # "text_and_image" THEN Append(res, slice)
    ELSE IF res # << >> /\ res[Len(res)].slice_type = "text_and_image_bundle"
    THEN [res EXCEPT ![Len(res)].slices = Append(@, slice)]
    ELSE Append(res, [id |-> slice.id \o "-bundle",
                      slice_type |-> "text_and_image_bundle",
                      slices |-> << slice >>])

\* lines 135-168: bundleTextAndImageSlices(slices)
RECURSIVE BundleFrom(_, _, _)
BundleFrom(res, slices, i) ==
    IF i > Len(slices) THEN res
    ELSE BundleFrom(BundleStep(res, slices[i]), slices, i + 1)

bundleTextAndImageSlices(slices) == BundleFrom(<< >>, slices, 1)

\* the route has not been requested
NoPage == [slices |-> << >>, res |-> << >>, served |-> FALSE]

\* the rest of the page while FooterPhysics is looked at on its own
OthersAbsent == parallax = NoParallax /\ page = NoPage

(***************************************************************************)
(* The state after the first render and the mount effects: E1 has run      *)
(* handleResize (line 54) and registered it, E2 observes the div, E3 and   *)
(* E4 returned early because inView is false (lines 89 and 208).           *)
(***************************************************************************)
NoBoards == [on |-> FALSE, boards |-> {}]

\* lines 68-84: E2 constructs the observer; where the host has no
\* IntersectionObserver, "new IntersectionObserver" throws a ReferenceError
\* out of the effect, and E3 and E4, which come after it, are not run
ObserverEffectThrows(h) == ~h.observer

InitHost(observers) ==
    /\ mounted = TRUE
    /\ host \in [observer : observers, rule : HostRules]
    /\ crashed = ObserverEffectThrows(host)
    /\ winWidth \in Widths
    /\ dims \in ContainerDims
    /\ ratio \in Ratios
    /\ reducedMotion \in BOOLEAN
    /\ textures \in TextureLists
    /\ inView = FALSE
    /\ isMobile = MatchesMobile(winWidth)
    /\ rendered = [inView |-> FALSE, isMobile |-> FALSE]
    /\ handleResizeOn = TRUE
    /\ observed = ~ObserverEffectThrows(host)
    /\ ioPrev = {}
    /\ simCleanup = {}
    /\ boardsCleanup = NoBoards
    /\ engineRef = InitialEngine
    /\ m = EmptyMachine
    /\ hist = [ran |-> {}, attempt |-> "none", startClean |-> TRUE,
               teardowns |-> 0, simEngine |-> {}, prevEngine |-> {}]
    /\ OthersAbsent

\* a host that has IntersectionObserver
Init == InitHost({TRUE})

\* any host, also one without IntersectionObserver
InitAnyHost == InitHost(BOOLEAN)

(***************************************************************************)
(* The environment.                                                        *)
(***************************************************************************)
\* the page scrolls: another part of the host div is inside the viewport
VisibilityChange(r) ==
    /\ r # ratio
    /\ ratio' = r
    /\ hist' = [hist EXCEPT !.ran = {}]
    /\ UNCHANGED << mounted, crashed, winWidth, dims, reducedMotion, host, textures,
                    inView, isMobile, rendered, handleResizeOn, observed, ioPrev,
                    simCleanup, boardsCleanup, engineRef, m >>

\* the user changes the reduced-motion preference
MotionChange ==
    /\ reducedMotion' = ~reducedMotion
    /\ hist' = [hist EXCEPT !.ran = {}]
    /\ UNCHANGED << mounted, crashed, winWidth, dims, ratio, host, textures,
                    inView, isMobile, rendered, handleResizeOn, observed, ioPrev,
                    simCleanup, boardsCleanup, engineRef, m >>

(***************************************************************************)
(* Event handlers and timers.                                              *)
(***************************************************************************)
\* lines 73-75: the observer's callback, setInView(entry.isIntersecting)
ObserverCallback ==
    /\ observed
    /\ ioPrev # {Observation(host.rule, ratio)}
    /\ ioPrev' = {Observation(host.rule, ratio)}
    /\ inView' = IsIntersecting(host.rule, ratio)
    /\ hist' = [hist EXCEPT !.ran = {"observer"}]
    /\ UNCHANGED << mounted, crashed, env, textures, isMobile, rendered,
                    handleResizeOn, observed, simCleanup, boardsCleanup,
                    engineRef, m >>

\* the registered onResize listeners run one after the other; line 145
\* returns early when scene.current is null
RECURSIVE DispatchOnResize(_, _, _)
DispatchOnResize(mm, as, d) ==
    IF as = {} THEN mm
    ELSE LET a == CHOOSE x \in as : \A y \in as : x <= y
         IN  DispatchOnResize(OnResize(mm, a, d), as \ {a}, d)

\* a window resize event: handleResize (lines 47-52) and then every onResize
ResizeEvent(w, d) ==
    /\ winWidth' = w
    /\ dims' = d
    /\ isMobile' = IF handleResizeOn THEN MatchesMobile(w) ELSE isMobile
    /\ m' = IF mounted THEN DispatchOnResize(m, m.listeners, d) ELSE m
    /\ hist' = [hist EXCEPT !.ran =
                   (IF handleResizeOn THEN {"handleResize"} ELSE {})
                   \cup (IF m.listeners # {} THEN {"onResize"} ELSE {})]
    /\ UNCHANGED << mounted, crashed, ratio, reducedMotion, host, textures, inView,
                    rendered, handleResizeOn, observed, ioPrev, simCleanup,
                    boardsCleanup, engineRef >>

\* one tick of the Runner's loop (Engine.update): bodies move, none is
\* added or removed
StepTick ==
    /\ m.runners # {}
    /\ hist' = [hist EXCEPT !.ran = {"stepTick"}]
    /\ UNCHANGED << mounted, crashed, env, textures, inView, isMobile, rendered,
                    handleResizeOn, observed, ioPrev, simCleanup, boardsCleanup,
                    engineRef, m >>

\* one frame of the Render loop
RenderTick ==
    /\ m.renders # {}
    /\ hist' = [hist EXCEPT !.ran = {"renderTick"}]
    /\ UNCHANGED << mounted, crashed, env, textures, inView, isMobile, rendered,
                    handleResizeOn, observed, ioPrev, simCleanup, boardsCleanup,
                    engineRef, m >>


(***************************************************************************)
(* A render of the component and the commit of its effects.  React runs    *)
(* the cleanups of all effects whose dependencies changed, in the order    *)
(* of the effects, and after them the effects themselves, in order.        *)
(***************************************************************************)
\* a bug: an activation after a teardown runs on another engine
EngineForActivationFresh(ref, prev) == IF ref \in prev THEN ref + 1 ELSE ref

\* lines 102-122: the engine E3 sets up is engine.current, the one engine
\* that line 36 created for the first render (prev: the engine of the
\* activation torn down last)
EngineForActivation(ref, prev) == ref

\* the constructions of E3 that may throw: Render.create (lines 108-118),
\* Mouse.create (line 125), MouseConstraint.create (lines 131-137)
ThrowPoints == {"render", "mouse", "constraint"}

\* a bug: the loops are started before the constructions that may throw
SimSetupThrowingLoopsFirst(mm, a, d, at) ==
    StartLoops(IF at = "render" THEN mm
               ELSE AddBoundaries(CreateRender(mm, a), a, d), a)

\* the steps of E3 that were done when the construction at "at" threw
SimSetupThrowing(mm, a, d, at) ==
    IF at = "render" THEN mm
    ELSE AddBoundaries(CreateRender(mm, a), a, d)

\* bugs: E3 has no dependency array and runs after every render; E3 has the
\* dependencies of E4
SimDepsChangedAlways(now, before, limitedChanged) == TRUE
SimDepsChangedWithTextures(now, before, limitedChanged) ==
    now # before \/ limitedChanged

\* line 203: the dependencies of E3 are [inView]
SimDepsChanged(now, before, limitedChanged) == now # before

\* a bug: the reduced-motion preference is not looked at
SimEffectRunsIgnoringMotion(isMounted, visible, reduced) == isMounted /\ visible

\* lines 89 and 92-95: E3 goes on to set the simulation up
SimEffectRuns(isMounted, visible, reduced) == isMounted /\ visible /\ ~reduced

\* a bug: E4 does not return early while the div is out of view
BoardsEffectRunsAlways(isMounted, visible) == isMounted

\* line 208: E4 goes on to create the boards
BoardsEffectRuns(isMounted, visible) == isMounted /\ visible

IsClean(mm) ==
    /\ mm.world = EmptyWorld
    /\ mm.canvases = {} /\ mm.listeners = {}
    /\ mm.runners = {} /\ mm.renders = {}

\* E4's dependency limitedBoardTextures is compared by identity: slice()
\* makes a new array on every render, the prop is a new array when the
\* parent passed one
LimitedChanged(texChanged) == texChanged \/ isMobile \/ rendered.isMobile

Commit(tex, texChanged, throwAt) ==
    LET simChanged == SimDepsChanged(inView, rendered.inView,
                                     LimitedChanged(texChanged))
        boardsChanged == simChanged \/ LimitedChanged(texChanged)
        tearsDown == simChanged /\ simCleanup # {}
        \* cleanups: lines 188-202, then lines 248-250
        m1 == IF tearsDown
              THEN SimCleanup(m, CHOOSE a \in simCleanup : TRUE) ELSE m
        m2 == IF boardsChanged /\ boardsCleanup.on
              THEN BoardsCleanup(m1, boardsCleanup.boards) ELSE m1
        \* E3: lines 89 and 92-95 return early
        starts == simChanged /\ SimEffectRuns(mounted, inView, reducedMotion)
        threw == starts /\ throwAt # "none"
        a == Fresh(ActivationsOf(m2))
        m3 == IF ~starts THEN m2
              ELSE IF threw THEN SimSetupThrowing(m2, a, dims, throwAt)
              ELSE SimSetup(m2, a, dims)
        \* E4: line 208 returns early; an effect after one that threw is not run
        populates == boardsChanged /\ ~threw /\ BoardsEffectRuns(mounted, inView)
        boards == MakeBoards(limitedBoardTextures(isMobile, tex), Fresh(BodyIds(m3)))
        m4 == IF populates THEN BoardsSetup(m3, boards) ELSE m3
    IN  /\ (throwAt # "none") => starts
        /\ textures' = tex
        /\ rendered' = [inView |-> inView, isMobile |-> isMobile]
        /\ m' = m4
        /\ simCleanup' = IF ~simChanged THEN simCleanup
                         ELSE IF starts /\ ~threw THEN {a} ELSE {}
        /\ boardsCleanup' = IF ~boardsChanged THEN boardsCleanup
                            ELSE IF populates THEN [on |-> TRUE, boards |-> boards]
                            ELSE NoBoards
        /\ crashed' = threw
        /\ hist' = [ran |-> {"render"}
                            \cup (IF tearsDown THEN {"teardown"} ELSE {})
                            \cup (IF starts THEN {"activate"} ELSE {})
                            \cup (IF populates THEN {"populate"} ELSE {}),
                    attempt |-> IF ~simChanged THEN hist.attempt
                                ELSE IF ~inView THEN "skipped"
                                ELSE IF reducedMotion THEN "reduced"
                                ELSE IF threw THEN "threw" ELSE "started",
                    startClean |-> IF starts THEN IsClean(m2) ELSE hist.startClean,
                    teardowns |-> IF tearsDown /\ hist.teardowns < TrackedTeardowns
                                  THEN hist.teardowns + 1 ELSE hist.teardowns,
                    simEngine |-> IF ~simChanged THEN hist.simEngine
                                  ELSE IF starts
                                  THEN {EngineForActivation(engineRef, hist.prevEngine)}
                                  ELSE {},
                    prevEngine |-> IF tearsDown THEN hist.simEngine
                                   ELSE hist.prevEngine]
        /\ UNCHANGED << mounted, env, inView, isMobile, handleResizeOn,
                        observed, ioPrev, engineRef >>

\* lines 40-43: a setInView or setIsMobile with a value other than the
\* rendered one schedules a re-render; with the same value React bails out
RenderPending ==
    /\ mounted /\ ~crashed
    /\ inView # rendered.inView \/ isMobile # rendered.isMobile

\* a re-render that a state update scheduled
Render ==
    /\ RenderPending
    /\ Commit(textures, FALSE, "none")

\* a re-render by the parent, which passes a new boardTextureURLs array
ParentRender(tex) ==
    /\ mounted /\ ~crashed
    /\ Commit(tex, TRUE, "none")

\* a re-render in which a construction of E3 throws
RenderThrows(at) ==
    /\ mounted /\ ~crashed
    /\ Commit(textures, FALSE, at)

\* a bug: the cleanup of E2 does not unobserve
UnobserveMissing(on) == on

\* lines 81-83: observer.unobserve(currentScene)
Unobserve(on) == FALSE

\* the component unmounts: the cleanups of E1 (lines 57-59), E2 (lines
\* 81-83), E3 and E4 run, in this order
Unmount ==
    /\ mounted
    /\ mounted' = FALSE
    /\ crashed' = FALSE
    /\ handleResizeOn' = FALSE
    /\ observed' = Unobserve(observed)
    /\ LET m1 == IF simCleanup # {}
                 THEN SimCleanup(m, CHOOSE a \in simCleanup : TRUE) ELSE m
           m2 == IF boardsCleanup.on
                 THEN BoardsCleanup(m1, boardsCleanup.boards) ELSE m1
       IN  m' = m2
    /\ simCleanup' = {}
    /\ boardsCleanup' = NoBoards
    /\ hist' = [hist EXCEPT
                   !.ran = {"unmount"} \cup (IF simCleanup # {} THEN {"teardown"} ELSE {}),
                   !.teardowns = IF simCleanup # {} /\ @ < TrackedTeardowns
                                 THEN @ + 1 ELSE @,
                   !.simEngine = {},
                   !.prevEngine = IF simCleanup # {} THEN hist.simEngine ELSE @]
    /\ UNCHANGED << env, textures, inView, isMobile, rendered, ioPrev, engineRef >>

(***************************************************************************)
(* Specifications.  Spec: every construction of E3 succeeds.  SpecThrow:   *)
(* Render.create, Mouse.create or MouseConstraint.create may throw.        *)
(* SpecAnyHost: as SpecThrow, and the host may lack IntersectionObserver.  *)
(***************************************************************************)
Next ==
    \/ (\E r \in Ratios : VisibilityChange(r)) /\ UNCHANGED rest
    \/ MotionChange /\ UNCHANGED rest
    \/ ObserverCallback /\ UNCHANGED rest
    \/ (\E w \in Widths, d \in ContainerDims : ResizeEvent(w, d)) /\ UNCHANGED rest
    \/ StepTick /\ UNCHANGED rest
    \/ RenderTick /\ UNCHANGED rest
    \/ Render /\ UNCHANGED rest
    \/ (\E tex \in TextureLists : ParentRender(tex)) /\ UNCHANGED rest
    \/ Unmount /\ UNCHANGED rest

NextThrow ==
    \/ Next
    \/ (\E at \in ThrowPoints : RenderThrows(at)) /\ UNCHANGED rest

Spec == Init /\ [][Next]_vars

SpecThrow == Init /\ [][NextThrow]_vars

SpecAnyHost == InitAnyHost /\ [][NextThrow]_vars


(***************************************************************************)
(* ParallaxImage: the pointer moves, the browser runs a requested frame,   *)
(* the component unmounts.                                                 *)
(***************************************************************************)
\* FooterPhysics is not on the page
FooterAbsent ==
    /\ mounted = FALSE /\ crashed = FALSE
    /\ winWidth = MobileBreakpoint /\ dims = << 800, 600 >> /\ ratio = 0
    /\ reducedMotion = FALSE
    /\ host = [observer |-> TRUE, rule |-> "spec"]
    /\ textures = << >>
    /\ inView = FALSE /\ isMobile = FALSE
    /\ rendered = [inView |-> FALSE, isMobile |-> FALSE]
    /\ handleResizeOn = FALSE /\ observed = FALSE /\ ioPrev = {}
    /\ simCleanup = {} /\ boardsCleanup = NoBoards
    /\ engineRef = InitialEngine /\ m = EmptyMachine
    /\ hist = [ran |-> {}, attempt |-> "none", startClean |-> TRUE,
               teardowns |-> 0, simEngine |-> {}, prevEngine |-> {}]

InitParallax ==
    /\ FooterAbsent
    /\ parallax = ParallaxMounted
    /\ page = NoPage

\* lines 27 and 33-49: a mousemove event reaches the registered listener
onMouseMove(xPercent, yPercent) ==
    /\ parallax.listening
    /\ parallax' = [parallax EXCEPT !.target = TargetFor(xPercent, yPercent),
                                    !.ran = "mousemove"]
    /\ UNCHANGED << footer, page >>

\* the browser runs the callback of a pending frame request
AnimationFrameRuns ==
    /\ parallax.frames < MaxFrames
    /\ \E handle \in parallax.requests :
          parallax' = [animationFrame(parallax, handle) EXCEPT !.ran = "frame"]
    /\ UNCHANGED << footer, page >>

\* the component unmounts: React runs the cleanup and clears the refs
ParallaxUnmount ==
    /\ parallax.mounted
    /\ parallax' = [ParallaxCleanup(parallax) EXCEPT !.mounted = FALSE,
                                                     !.ran = "unmount"]
    /\ UNCHANGED << footer, page >>

NextParallax ==
    \/ \E xPercent \in MousePercents, yPercent \in MousePercents :
          onMouseMove(xPercent, yPercent)
    \/ AnimationFrameRuns
    \/ ParallaxUnmount

SpecParallax == InitParallax /\ [][NextParallax]_vars

(***************************************************************************)
(* The homepage route: a request fetches the document's slices and renders *)
(* the bundled slices.                                                     *)
(***************************************************************************)
InitPage ==
    /\ FooterAbsent
    /\ parallax = NoParallax
    /\ page \in {[NoPage EXCEPT !.slices = s] : s \in SliceLists}

\* lines 39-48: Page()
Page ==
    /\ page' = [page EXCEPT !.res = bundleTextAndImageSlices(page.slices),
                            !.served = TRUE]
    /\ UNCHANGED << footer, parallax >>

NextPage == Page

SpecPage == InitPage /\ [][NextPage]_vars


(***************************************************************************)
(* Properties.                                                             *)
(***************************************************************************)
SimActive == simCleanup # {}
WorldBoundaries == Boundaries(m.world.bodies)
WorldBoards == Boards(m.world.bodies)
LoopOrSimResize == {"onResize", "stepTick", "renderTick"}

\* C1: at most one step loop, one render loop and one canvas exist, and each
\* of them belongs to the activation whose cleanup is registered, so nothing
\* of an earlier activation is still running when a new one begins
C1_AtMostOneLoopAndRenderer ==
    /\ Cardinality(m.runners) <= 1
    /\ Cardinality(m.renders) <= 1
    /\ Cardinality(m.canvases) <= 1
    /\ m.runners \cup m.renders \cup m.canvases \subseteq simCleanup
    /\ SimActive => m.runners = simCleanup /\ m.renders = simCleanup
                      /\ m.canvases = simCleanup

C1_Witness ==
    /\ SimActive /\ hist.teardowns >= 1
    /\ Cardinality(m.runners) = 1 /\ Cardinality(m.canvases) = 1

\* C2 (as claimed): whenever boards are populated, the window width decides
\* their number: at most min(3, input count) for widths <= 768, exactly the
\* input count above
C2_CountFollowsWindowWidth ==
    boardsCleanup.on =>
        /\ winWidth <= MobileBreakpoint =>
              /\ Cardinality(WorldBoards) <= MobileCap
              /\ Cardinality(WorldBoards) <= Len(textures)
        /\ winWidth > MobileBreakpoint => Cardinality(WorldBoards) = Len(textures)

\* C2 (amended): the populated boards are those of the device class of the
\* last render; the window width decides their number once the component
\* has re-rendered with the device class that handleResize computed
C2_CountFollowsRenderedClass ==
    /\ mounted => isMobile = MatchesMobile(winWidth)
    /\ boardsCleanup.on =>
        /\ rendered.isMobile =>
              /\ Cardinality(WorldBoards) <= MobileCap
              /\ Cardinality(WorldBoards) <= Len(textures)
        /\ ~rendered.isMobile => Cardinality(WorldBoards) = Len(textures)
        /\ isMobile = rendered.isMobile =>
              /\ winWidth <= MobileBreakpoint =>
                    /\ Cardinality(WorldBoards) <= MobileCap
                    /\ Cardinality(WorldBoards) <= Len(textures)
              /\ winWidth > MobileBreakpoint =>
                    Cardinality(WorldBoards) = Len(textures)

C2_Witness ==
    /\ boardsCleanup.on /\ rendered.isMobile /\ isMobile
    /\ winWidth <= MobileBreakpoint
    /\ Len(textures) > MobileCap
    /\ Cardinality(WorldBoards) = MobileCap

\* C3 (as claimed): after a teardown and before the next activation no
\* resize listener is registered, no loop runs, and the last step ran neither
\* a loop tick nor a resize handler
C3_NoResizeHandlerAfterTeardown ==
    (mounted /\ ~SimActive /\ hist.teardowns >= 1) =>
        /\ ~handleResizeOn /\ m.listeners = {}
        /\ m.runners = {} /\ m.renders = {}
        /\ hist.ran \cap (LoopOrSimResize \cup {"handleResize"}) = {}

\* C3 (amended): while no activation is live no onResize listener of the
\* simulation is registered, no loop runs, and no step ran a loop tick or
\* onResize; the device-class listener handleResize stays registered for as
\* long as the component is mounted
C3_NoSimListenerOrLoopWhileInactive ==
    /\ ~SimActive =>
        /\ m.listeners = {} /\ m.runners = {} /\ m.renders = {}
        /\ hist.ran \cap LoopOrSimResize = {}
    /\ handleResizeOn = mounted

C3_Witness ==
    /\ mounted /\ ~SimActive /\ hist.teardowns >= 1
    /\ hist.ran = {"handleResize"}

\* C4: whenever a handler or a tick can look at the world of a live
\* activation, the world holds exactly 4 boundaries, those of the last
\* createBoundaries call of that activation
C4_ResizeAtomic ==
    SimActive =>
        LET a == CHOOSE x \in simCleanup : TRUE
        IN  /\ Cardinality(WorldBoundaries) = 4
            /\ WorldBoundaries = ClosureBoundaries(m, a)

C4_Witness ==
    /\ SimActive /\ "onResize" \in hist.ran
    /\ Cardinality(WorldBoundaries) = 4
    /\ \E b \in WorldBoundaries : b.w = dims[1]

\* C5: a teardown leaves the clean Idle state, a second run of the same
\* cleanup changes nothing, and every teardown of a flicker ends there
C5_TeardownIdempotent ==
    /\ SimActive =>
        LET a == CHOOSE x \in simCleanup : TRUE
            once == BoardsCleanup(SimCleanup(m, a), boardsCleanup.boards)
            twice == BoardsCleanup(SimCleanup(once, a), boardsCleanup.boards)
        IN  twice = once /\ IsClean(once)
    /\ "teardown" \in hist.ran => IsClean(m) /\ ~SimActive /\ ~boardsCleanup.on

C5_Witness ==
    /\ "teardown" \in hist.ran /\ hist.teardowns >= 2 /\ IsClean(m)

\* C6: when the reduced-motion preference was set at the activation
\* attempt, nothing of the simulation exists while the div stays in view
C6_ReducedMotionStaysIdle ==
    (rendered.inView /\ hist.attempt = "reduced") =>
        /\ ~SimActive
        /\ m.canvases = {} /\ m.listeners = {}
        /\ m.runners = {} /\ m.renders = {}
        /\ WorldBoundaries = {} /\ m.world.constraints = {}

C6_Witness ==
    /\ rendered.inView /\ hist.attempt = "reduced" /\ "activate" \notin hist.ran
    /\ "render" \in hist.ran

\* C7 (as claimed): the world holds no board while no activation is live
C7_NoBoardWhileIdle ==
    ~SimActive => WorldBoards = {}

\* C8 (as claimed): the engine of an activation is never the engine of the
\* activation torn down before it
C8_NewWorldPerActivation ==
    (hist.simEngine # {} /\ hist.prevEngine # {}) =>
        hist.simEngine \cap hist.prevEngine = {}

\* C8 (amended): every activation runs on engine.current, the one engine
\* created at construction, also used by the activation torn down before it
C8_SingleEngineReused ==
    /\ engineRef = InitialEngine
    /\ hist.simEngine \subseteq {engineRef}
    /\ hist.prevEngine \subseteq {engineRef}
    /\ SimActive => hist.simEngine = {engineRef}

C8_Witness ==
    /\ SimActive /\ hist.simEngine = {InitialEngine}
    /\ hist.prevEngine = {InitialEngine}

\* C9: every activation started with an empty world, no canvas, no listener
\* and no loop, and right after it the world holds only its own 4
\* boundaries, its own mouse constraint and the boards populated with it
C9_ActivationStartsClean ==
    /\ hist.startClean
    /\ "activate" \in hist.ran =>
        /\ SimActive
        /\ m.world.constraints = simCleanup
        /\ m.listeners = simCleanup
        /\ m.world.bodies = ClosureBoundaries(m, CHOOSE x \in simCleanup : TRUE)
                               \cup boardsCleanup.boards

C9_Witness ==
    /\ "activate" \in hist.ran /\ hist.teardowns >= 1 /\ WorldBoards # {}

\* C10 (as claimed): after a construction of the activation threw, no loop
\* runs, no onResize is registered, and the world holds neither a boundary
\* nor a mouse constraint
C10_ThrowLeavesIdle ==
    crashed =>
        /\ m.runners = {} /\ m.renders = {} /\ m.listeners = {}
        /\ WorldBoundaries = {} /\ m.world.constraints = {}


\* C11 (as claimed): a construction that throws during the activation is
\* caught inside the simulation effect, so no exception reaches React and
\* the component stays mounted and able to render again
C11_FailureCaughtLocally ==
    (hist.attempt = "threw" /\ "render" \in hist.ran) => (mounted /\ ~crashed)

\* C12 (as claimed): on a host without IntersectionObserver the gate reports
\* the surface as active and nothing is thrown
C12_GateFailsOpen ==
    (mounted /\ ~host.observer) => (inView /\ ~crashed)

\* C13 (as claimed): after every callback of the observer, inView is true
\* exactly when at least 50% of the host div is inside the viewport
C13_InViewIffHalfVisible ==
    "observer" \in hist.ran => (inView <=> ratio >= ThresholdPercent)


\* C14: while the component is mounted exactly one observation of the host
\* div is registered, whatever was rendered or resized in between, and none
\* is registered, and no callback runs, once it is unmounted
C14_OneObservationWhileMounted ==
    /\ observed = mounted
    /\ "observer" \in hist.ran => mounted

C14_Witness ==
    /\ ~mounted /\ ~observed /\ hist.teardowns >= 1 /\ "unmount" \in hist.ran

\* C15: while mounted, the device class is Mobile exactly when the window
\* width is <= 768; a resize event that leaves the width unchanged leaves
\* the device class and the boards unchanged and schedules no re-render
ResizeKeepsWidth == "handleResize" \in hist'.ran /\ winWidth' = winWidth

EffectiveCount ==
    IF rendered.isMobile /\ Len(textures) > MobileCap
    THEN MobileCap ELSE Len(textures)

C16_OneBoardPerEffectiveTexture ==
    boardsCleanup.on =>
        /\ WorldBoards = boardsCleanup.boards
        /\ Cardinality(WorldBoards) = EffectiveCount
        /\ \A i \in 1..EffectiveCount :
              \E b \in WorldBoards : b.idx = i /\ b.texture = textures[i]
        /\ \A b \in WorldBoards : b.idx \in 1..EffectiveCount

C16_Witness ==
    /\ "populate" \in hist.ran /\ SimActive /\ rendered.isMobile
    /\ Len(textures) = 5 /\ textures[1] = 5
    /\ Cardinality(WorldBoards) = 3
    /\ \E b \in WorldBoards : b.idx = 3 /\ b.texture = 3

C16_WitnessDesktop ==
    /\ "populate" \in hist.ran /\ SimActive /\ ~rendered.isMobile
    /\ Len(textures) = 5 /\ Cardinality(WorldBoards) = 5


\* C17: the boundaries that createBoundaries(width, height) made for a live
\* activation are 4 static bodies: top (width/2, -10, width x 20), left
\* (-10, height/2, 20 x height), bottom (width/2, height+10, width x 20) and
\* right (width+10, height/2, 20 x height); for 800 x 600 these are
\* (400,-10,800x20), (-10,300,20x600), (400,610,800x20), (810,300,20x600)
Geometry(bs) == {<<b.x, b.y, b.w, b.h>> : b \in bs}

ExpectedGeometry(width, height) ==
    { <<width \div 2, -10, width, 20>>, <<-10, height \div 2, 20, height>>,
      <<width \div 2, height + 10, width, 20>>,
      <<width + 10, height \div 2, 20, height>> }

C17_BoundaryGeometry ==
    /\ \A d \in ContainerDims :
          /\ Geometry(createBoundaries(d[1], d[2], 0)) = ExpectedGeometry(d[1], d[2])
          /\ Cardinality(createBoundaries(d[1], d[2], 0)) = 4
    /\ SimActive =>
          /\ Cardinality(WorldBoundaries) = 4
          /\ \A b \in WorldBoundaries : b.isStatic
          /\ Geometry(WorldBoundaries) = ExpectedGeometry(dims[1], dims[2])
          /\ dims = <<800, 600>> =>
                Geometry(WorldBoundaries) =
                    { <<400, -10, 800, 20>>, <<-10, 300, 20, 600>>,
                      <<400, 610, 800, 20>>, <<810, 300, 20, 600>> }

C17_Witness ==
    /\ SimActive /\ dims = <<800, 600>> /\ "activate" \in hist.ran
    /\ <<400, -10, 800, 20>> \in Geometry(WorldBoundaries)
    /\ <<810, 300, 20, 600>> \in Geometry(WorldBoundaries)

\* C18: after a resize handled by a live activation the boundaries in the
\* world are exactly one createBoundaries(w, h) set for the container's
\* current size; no boundary of another size or of an earlier call remains
C18_ResizeReplacesBoundaries ==
    ("onResize" \in hist.ran /\ SimActive) =>
        /\ \E id \in BodyIds(m) :
              WorldBoundaries = createBoundaries(dims[1], dims[2], id)
        /\ \A b \in WorldBoundaries :
              /\ b.w \in {dims[1], BoundaryThickness}
              /\ b.h \in {dims[2], BoundaryThickness}

C18_Witness ==
    /\ "onResize" \in hist.ran /\ SimActive /\ dims = <<1000, 400>>
    /\ Geometry(WorldBoundaries) = ExpectedGeometry(1000, 400)
    /\ WorldBoards # {}

\* C19: once the component is unmounted no resize listener (handleResize or
\* onResize), no observation, no loop, no canvas, no body and no constraint
\* is left, no effect cleanup is pending, and no handler or tick runs
C19_UnmountRemovesEverything ==
    ~mounted =>
        /\ ~handleResizeOn /\ ~observed
        /\ IsClean(m)
        /\ simCleanup = {} /\ ~boardsCleanup.on
        /\ hist.ran \cap (LoopOrSimResize \cup {"handleResize", "observer"}) = {}

C19_Witness ==
    /\ ~mounted /\ hist.ran = {"unmount", "teardown"} /\ IsClean(m)

\* C20: while a step loop or a render loop runs, the world holds exactly 4
\* boundaries and one mouse constraint, the canvas of the renderer is in the
\* host div and onResize is registered, all of the running activation
C20_LoopsRunOnlyWhenSetUp ==
    (m.runners # {} \/ m.renders # {}) =>
        /\ SimActive
        /\ m.runners = simCleanup /\ m.renders = simCleanup
        /\ Cardinality(WorldBoundaries) = 4
        /\ m.world.constraints = simCleanup
        /\ m.canvases = simCleanup
        /\ m.listeners = simCleanup

C20_Witness ==
    /\ "stepTick" \in hist.ran /\ m.renders # {}
    /\ Cardinality(m.world.constraints) = 1 /\ Cardinality(WorldBoundaries) = 4


\* C21: a re-population while the simulation is active (the texture list or
\* the device class changed) leaves exactly the boards of the new population
\* in the world, one per entry of the capped list; at any time all boards in
\* the world belong to one population and are no more than the input has
Resync == SimActive /\ "populate" \in hist'.ran /\ "activate" \notin hist'.ran

C21_ResyncReplacesBoards ==
    /\ [](/\ \A b1, b2 \in WorldBoards : b1.id = b2.id
          /\ mounted => Cardinality(WorldBoards) <= Len(textures))
    /\ [][Resync =>
            /\ Boards(m'.world.bodies) = boardsCleanup'.boards
            /\ Cardinality(Boards(m'.world.bodies)) =
                  Len(limitedBoardTextures(isMobile', textures'))
            /\ Boundaries(m'.world.bodies) = Boundaries(m.world.bodies)]_vars

C21_Witness ==
    /\ SimActive /\ "populate" \in hist.ran /\ "activate" \notin hist.ran
    /\ Len(textures) = 2 /\ Cardinality(WorldBoards) = 2

\* C22: the world never holds two mouse constraints: while an activation is
\* live it holds the one that activation created, and none after a teardown
C22_AtMostOneMouseConstraint ==
    /\ Cardinality(m.world.constraints) <= 1
    /\ SimActive => m.world.constraints = simCleanup
    /\ ~SimActive => m.world.constraints = {}

C22_Witness ==
    /\ SimActive /\ hist.teardowns >= 2 /\ "onResize" \in hist.ran
    /\ Cardinality(m.world.constraints) = 1

\* C23: a change of the reduced-motion preference changes nothing of the
\* simulation; as long as the rendered visibility stays the same no render
\* tears the simulation down or starts it, whatever the preference is by
\* then; when the rendered visibility goes from false to true the simulation
\* starts exactly if the preference is unset at that moment
C23_MotionReadOnlyAtActivation ==
    /\ [][reducedMotion' # reducedMotion =>
            (simCleanup' = simCleanup /\ m' = m)]_vars
    /\ [][(mounted' /\ rendered'.inView = rendered.inView) =>
            /\ simCleanup' = simCleanup
            /\ hist'.ran \cap {"teardown", "activate"} = {}
            /\ hist'.attempt = hist.attempt]_vars
    /\ [][(~rendered.inView /\ rendered'.inView) =>
            (SimActive' <=> ~reducedMotion)]_vars

C23_Witness ==
    /\ SimActive /\ reducedMotion /\ rendered.inView
    /\ "render" \in hist.ran /\ "activate" \notin hist.ran

\* what the handlers would do to the world of the current state
AfterResize(d) == OnResize(m, CHOOSE a \in simCleanup : TRUE, d)
AfterTeardown == SimCleanup(m, CHOOSE a \in simCleanup : TRUE)
AfterPopulate ==
    BoardsSetup(m, MakeBoards(limitedBoardTextures(isMobile, textures),
                              Fresh(BodyIds(m))))
AfterBoardsCleanup == BoardsCleanup(m, boardsCleanup.boards)

ResizeKeepsBoards ==
    SimActive => \A d \in ContainerDims :
        /\ Boards(AfterResize(d).world.bodies) = WorldBoards
        /\ AfterResize(d).world.constraints = m.world.constraints

PopulatorKeepsBoundaries ==
    /\ Boundaries(AfterPopulate.world.bodies) = WorldBoundaries
    /\ AfterPopulate.world.constraints = m.world.constraints
    /\ Boundaries(AfterBoardsCleanup.world.bodies) = WorldBoundaries
    /\ AfterBoardsCleanup.world.constraints = m.world.constraints

\* C24 (as claimed): neither onResize nor the teardown adds or removes a
\* board, and neither the boards effect nor its cleanup adds or removes a
\* boundary or the mouse constraint
C24_OnlyPopulatorTouchesBoards ==
    /\ ResizeKeepsBoards
    /\ SimActive => Boards(AfterTeardown.world.bodies) = WorldBoards
    /\ PopulatorKeepsBoundaries

\* C24 (amended): onResize adds and removes no board, the boards effect and
\* its cleanup add and remove no boundary and no constraint; the teardown
\* empties the world, boards included.  In every step the boards change
\* only when the boards effect, its cleanup or the teardown ran, and the
\* boundaries only when the activation, onResize or the teardown ran
C24_TeardownAlsoRemovesBoards ==
    /\ [](/\ ResizeKeepsBoards
          /\ SimActive => AfterTeardown.world = EmptyWorld
          /\ PopulatorKeepsBoundaries)
    /\ [][Boards(m'.world.bodies) # Boards(m.world.bodies) =>
            \/ hist'.ran \cap {"populate", "teardown"} # {}
            \/ boardsCleanup.on /\ boardsCleanup' # boardsCleanup]_vars
    /\ [][Boundaries(m'.world.bodies) # Boundaries(m.world.bodies) =>
            hist'.ran \cap {"activate", "onResize", "teardown"} # {}]_vars

C24_Witness ==
    /\ "teardown" \in hist.ran /\ "render" \in hist.ran
    /\ Len(textures) = 2 /\ m.world.bodies = {} /\ ~boardsCleanup.on

\* C25: a step in which the component stays mounted and the rendered
\* visibility stays the same (a render for a new texture list or a new
\* device class, a resize event, a tick, a change of the preference) leaves
\* the activation, its engine, canvas, loops, mouse constraint and resize
\* listener as they are and runs neither a teardown nor an activation
SameVisibility == mounted' /\ rendered'.inView = rendered.inView

C25_OnlyVisibilityChangesActivation ==
    [][SameVisibility =>
          /\ simCleanup' = simCleanup
          /\ engineRef' = engineRef /\ hist'.simEngine = hist.simEngine
          /\ m'.canvases = m.canvases
          /\ m'.runners = m.runners /\ m'.renders = m.renders
          /\ m'.world.constraints = m.world.constraints
          /\ m'.listeners = m.listeners
          /\ hist'.teardowns = hist.teardowns
          /\ "activate" \notin hist'.ran]_vars

C25_Witness ==
    /\ SimActive /\ hist.teardowns = 0 /\ rendered.isMobile
    /\ "populate" \in hist.ran /\ "activate" \notin hist.ran
    /\ Len(textures) = 4 /\ Cardinality(WorldBoards) = 3

\* C26 (as claimed, its first part): a render for a new texture list or a
\* new device class, made while no activation is live and none starts,
\* populates nothing and leaves the world without boards
InputsChange ==
    /\ mounted' /\ rendered'.inView = rendered.inView
    /\ textures' # textures \/ rendered'.isMobile # rendered.isMobile

C26_NothingPopulatedWhileInactive ==
    [][(~SimActive /\ ~SimActive' /\ InputsChange) =>
          /\ "populate" \notin hist'.ran
          /\ Boards(m'.world.bodies) = {}]_vars

\* C27: the teardown of a live activation first unregisters onResize, then
\* stops the loops, then clears the world, then removes the canvas; at no
\* point of it is onResize registered or a loop running while the world is
\* already cleared or the canvas already removed; and every onResize and
\* every tick that ran found the canvas, the 4 boundaries and the mouse
\* constraint of its activation in place
C27_TeardownOrder ==
    /\ SimActive =>
          LET a == CHOOSE x \in simCleanup : TRUE
              steps == TeardownTrace(m, a)
          IN  /\ Len(steps) = 5 /\ steps[1] = m
              /\ a \notin steps[2].listeners
              /\ steps[2].runners = m.runners /\ steps[2].renders = m.renders
              /\ steps[2].world = m.world /\ steps[2].canvases = m.canvases
              /\ a \notin steps[3].runners /\ a \notin steps[3].renders
              /\ steps[3].world = m.world /\ steps[3].canvases = m.canvases
              /\ steps[4].world = EmptyWorld /\ steps[4].canvases = m.canvases
              /\ a \notin steps[5].canvases
              /\ \A k \in 1..Len(steps) :
                    (a \in steps[k].listeners \cup steps[k].runners
                              \cup steps[k].renders)
                        => (steps[k].world = m.world /\ a \in steps[k].canvases)
    /\ hist.ran \cap LoopOrSimResize # {} =>
          /\ SimActive /\ m.canvases = simCleanup
          /\ Cardinality(WorldBoundaries) = 4
          /\ m.world.constraints = simCleanup

C27_Witness ==
    /\ "teardown" \in hist.ran /\ "unmount" \notin hist.ran
    /\ hist.teardowns = 1 /\ hist.attempt = "skipped"
    /\ m.listeners = {} /\ m.runners = {} /\ m.renders = {}
    /\ m.world = EmptyWorld /\ m.canvases = {}

\* C28: the world never holds more bodies than the input has textures plus
\* the 4 boundaries; after a teardown, and whenever the last render saw the
\* div out of view, the world holds no body at all, also when the boards had
\* been added to a world that reduced motion kept idle
C28_BodyCountBounded ==
    /\ Cardinality(m.world.bodies) <= Len(textures) + 4
    /\ Cardinality(WorldBoundaries) <= 4
    /\ "teardown" \in hist.ran => m.world.bodies = {}
    /\ ~rendered.inView => m.world.bodies = {} /\ ~boardsCleanup.on

C28_Witness ==
    /\ mounted /\ ~rendered.inView /\ "render" \in hist.ran
    /\ hist.attempt = "skipped" /\ hist.teardowns = 0
    /\ Len(textures) = 5 /\ m.world.bodies = {}

\* C29 (as claimed): once ParallaxImage is unmounted its mousemove listener
\* is removed, no frame request is pending, and no animationFrame runs
C29_NoFrameAfterUnmount ==
    ~parallax.mounted =>
        /\ ~parallax.listening
        /\ parallax.requests = {}
        /\ parallax.ran # "frame"

\* C30: in the slices that Page renders, replacing every bundle by its
\* slices gives the document's slices in order; every bundle is non-empty
\* and holds only text_and_image slices; no two bundles are neighbours; every
\* other item is a slice of the document that is not a text_and_image slice;
\* and the id of a bundle is the id of its first slice followed by "-bundle"
IsBundle(item) == item.slice_type = "text_and_image_bundle"

RECURSIVE Unbundle(_)
Unbundle(items) ==
    IF items = << >> THEN << >>
    ELSE (IF IsBundle(Head(items)) THEN Head(items).slices ELSE << Head(items) >>)
             \o Unbundle(Tail(items))

C30_BundlesAreMaximalRuns ==
    page.served =>
        /\ Unbundle(page.res) = page.slices
        /\ \A i \in 1..Len(page.res) :
              IF IsBundle(page.res[i])
              THEN /\ page.res[i].slices # << >>
                   /\ \A k \in 1..Len(page.res[i].slices) :
                         page.res[i].slices[k].slice_type = "text_and_image"
                   /\ page.res[i].id = page.res[i].slices[1].id \o "-bundle"
                   /\ i < Len(page.res) => ~IsBundle(page.res[i + 1])
              ELSE /\ page.res[i].slice_type # "text_and_image"
                   /\ \E j \in 1..Len(page.slices) : page.slices[j] = page.res[i]

C30_Witness ==
    /\ page.served /\ Len(page.slices) = 4 /\ Len(page.res) = 3
    /\ IsBundle(page.res[1]) /\ Len(page.res[1].slices) = 2
    /\ page.res[1].id = "text_and_image$1-bundle"
    /\ page.res[2].slice_type = "hero"
    /\ IsBundle(page.res[3]) /\ page.res[3].id = "text_and_image$4-bundle"

=============================================================================
